---- MODULE Spec2Model ----
(***************************************************************************)
(* Model of record_data.py: the script that reads the .out files of the    *)
(* LCS benchmark runs, extracts "Total time taken:" from each, averages    *)
(* the n_runs trials of every configuration and writes one .csv summary    *)
(* per algorithm and sequence length.                                      *)
(*                                                                         *)
(* Texts, paths and messages are TLA+ strings, built and searched          *)
(* character by character as the f-strings and the regular expression of   *)
(* the script do.  A float is an IEEE 754 binary64 number, held as an odd   *)
(* significand and a binary exponent; float(), + and / round to nearest,   *)
(* ties to even, as CPython does on every platform it supports.            *)
(***************************************************************************)
EXTENDS Integers, Sequences, FiniteSets, TLC

VARIABLES
  files,                \* input tree: path -> text of the file (absent = missing)
  data,                 \* output tree: path of a written .csv -> its table
  dirs,                 \* directories that exist under OUT_DIR
  stdout,               \* tables printed by the running process
  sequence_lengths,     \* module global (line 13)
  degree_counts,        \* thread_counts / process_counts (lines 47, 79)
  entry,                \* what the process runs: main or one record function
  invocation,           \* how many times the process has been started
  calls,                \* record functions the entry point still has to call
  pc,                   \* position of the process
  algo,                 \* local algo of the running record function
  si,                   \* index of sequence_length in sequence_lengths
  di,                   \* index of n_threads / n_processes in degree_counts
  run,                  \* loop variable run
  execution_time,       \* accumulator
  avg_execution_times,  \* list of averages of the current sequence length
  input_path,           \* path of the file opened last
  error                 \* the exception that ended the process, or NoError

vars == <<files, data, dirs, stdout, sequence_lengths, degree_counts, entry,
          invocation, calls, pc, algo, si, di, run, execution_time,
          avg_execution_times, input_path, error>>

----------------------------------------------------------------------------
(* Program constants *)

OUT_DIR == "data"

n_runs == 8

SequenceLengths == <<100, 1000, 10000>>

DegreeCounts == <<1, 2, 4, 8>>

Algos == {"serial", "parallel", "distributed"}

\* The literal the lookbehind of the pattern requires.
Marker == "Total time taken:"

\* What \s matches in a str pattern, among the characters a TLA+ string can
\* hold (those up to U+00FF): space, \t, \n, \r, \f, the vertical tab, the
\* separators U+001C to U+001F, the next line U+0085 and the no-break space
\* U+00A0.  The spaces above U+00FF (U+1680, U+2000 to U+200A, U+2028,
\* U+2029, U+202F, U+205F, U+3000) cannot occur in a text of the model.
Whitespace ==
  {" ", "\t", "\n", "\r", "\f", "", "", "", "", "",
   "", " "}

Digits == "0123456789"

\* How many times the process is started on the same input tree.
MaxInvocations == 2

----------------------------------------------------------------------------
(* Strings *)

CharAt(s, i) == SubSeq(s, i, i)

IsDigit(c) == \E k \in 1..10 : CharAt(Digits, k) = c

DigitVal(c) == (CHOOSE k \in 1..10 : CharAt(Digits, k) = c) - 1

StartsWith(s, prefix) ==
  Len(s) >= Len(prefix) /\ SubSeq(s, 1, Len(prefix)) = prefix

\* First index >= i of s whose character is not whitespace (Len(s)+1 if none).
SkipSpaces(s, i) ==
  CHOOSE j \in i..(Len(s) + 1) :
    /\ \A k \in i..(j - 1) : CharAt(s, k) \in Whitespace
    /\ j = Len(s) + 1 \/ CharAt(s, j) \notin Whitespace

\* First index >= i of s whose character is not a digit (Len(s)+1 if none).
SkipDigits(s, i) ==
  CHOOSE j \in i..(Len(s) + 1) :
    /\ \A k \in i..(j - 1) : IsDigit(CharAt(s, k))
    /\ j = Len(s) + 1 \/ ~IsDigit(CharAt(s, j))

----------------------------------------------------------------------------
(* Floats: IEEE 754 binary64, round to nearest, ties to even *)

\* A float is sig * 2^exp, sig an odd natural number below 2^53 held as its
\* digits in base 2^15, least significant first; 0.0 has no digits, and inf
\* is the one value 2^1024.  No float of the script is negative or nan: the
\* pattern captures no sign.
Base == 2 ^ 15

\* Bits of a significand.
MantissaBits == 53

\* Exponent of the least bit of the subnormal numbers.
MinExp == -1074

\* Numbers of 2^MaxExp and above overflow to inf.
MaxExp == 1024

Zero == [sig |-> <<>>, exp |-> 0]

Inf == [sig |-> <<1>>, exp |-> MaxExp]

Max(a, b) == IF a >= b THEN a ELSE b

Min(a, b) == IF a <= b THEN a ELSE b

\* x without its leading zero digits.
BNorm(x) ==
  LET nz == {i \in 1..Len(x) : x[i] # 0}
  IN IF nz = {} THEN <<>>
     ELSE SubSeq(x, 1, CHOOSE i \in nz : \A j \in nz : j <= i)

\* The digits of x * m + c and the carry out of the last one, for m and c
\* below Base.  The digits are worked through by halves, low half first.
RECURSIVE MulCarry(_, _, _)
MulCarry(x, m, c) ==
  IF Len(x) = 0 THEN [q |-> <<>>, c |-> c]
  ELSE IF Len(x) = 1
  THEN LET t == x[1] * m + c IN [q |-> <<t % Base>>, c |-> t \div Base]
  ELSE LET h == Len(x) \div 2
           lo == MulCarry(SubSeq(x, 1, h), m, c)
           hi == MulCarry(SubSeq(x, h + 1, Len(x)), m, lo.c)
       IN [q |-> lo.q \o hi.q, c |-> hi.c]

\* x * m + c, for m and c below Base.
BMulAdd(x, m, c) ==
  LET p == MulCarry(x, m, c) IN IF p.c = 0 THEN p.q ELSE Append(p.q, p.c)

\* Quotient (leading zeros kept) and remainder of r * Base^Len(x) + x by m,
\* for r < m < Base: long division, high half first (r is looked at before
\* x, so that the high half is divided before the low half is entered).
RECURSIVE DivCarry(_, _, _)
DivCarry(x, m, r) ==
  IF r >= 0 /\ Len(x) = 0 THEN [q |-> <<>>, r |-> r]
  ELSE IF Len(x) = 1
  THEN LET t == r * Base + x[1] IN [q |-> <<t \div m>>, r |-> t % m]
  ELSE LET h == Len(x) \div 2
           hi == DivCarry(SubSeq(x, h + 1, Len(x)), m, r)
           lo == DivCarry(SubSeq(x, 1, h), m, hi.r)
       IN [q |-> lo.q \o hi.q, r |-> lo.r]

\* Quotient (leading zeros kept) and remainder of x by m, for m below Base.
BDiv(x, m) == DivCarry(x, m, 0)

\* Digits i..j of x + y + c and the carry out of digit j, for c in 0..1.
RECURSIVE AddCarry(_, _, _, _, _)
AddCarry(x, y, i, j, c) ==
  IF i > j THEN [q |-> <<>>, c |-> c]
  ELSE IF i = j
  THEN LET t == (IF i <= Len(x) THEN x[i] ELSE 0)
                + (IF i <= Len(y) THEN y[i] ELSE 0) + c
       IN [q |-> <<t % Base>>, c |-> t \div Base]
  ELSE LET h == (i + j) \div 2
           lo == AddCarry(x, y, i, h, c)
           hi == AddCarry(x, y, h + 1, j, lo.c)
       IN [q |-> lo.q \o hi.q, c |-> hi.c]

\* x + y + c, for c in 0..1.
BAdd(x, y, c) ==
  LET p == AddCarry(x, y, 1, Max(Len(x), Len(y)), c)
  IN IF p.c = 0 THEN p.q ELSE Append(p.q, p.c)

\* Number of bits of a digit, and of x.
RECURSIVE IntBitLen(_)
IntBitLen(n) == IF n = 0 THEN 0 ELSE 1 + IntBitLen(n \div 2)

BBitLen(x) == IF x = <<>> THEN 0 ELSE 15 * (Len(x) - 1) + IntBitLen(x[Len(x)])

BOdd(x) == x # <<>> /\ x[1] % 2 = 1

\* x * 2^k.
BShl(x, k) ==
  IF x = <<>> THEN x
  ELSE [i \in 1..(k \div 15) |-> 0] \o BMulAdd(x, 2 ^ (k % 15), 0)

\* x \div 2^k, and whether a 1 bit was shifted out.
BShr(x, k) ==
  LET whole == Min(k \div 15, Len(x))
      d == BDiv(SubSeq(x, whole + 1, Len(x)), 2 ^ (k % 15))
  IN [q |-> BNorm(d.q),
      lost |-> d.r # 0 \/ \E i \in 1..whole : x[i] # 0]

\* Number of zero bits at the low end of x # 0.
RECURSIVE IntZeros(_)
IntZeros(n) == IF n % 2 = 1 THEN 0 ELSE 1 + IntZeros(n \div 2)

BZeros(x) ==
  LET i == CHOOSE k \in 1..Len(x) : x[k] # 0 /\ \A j \in 1..(k - 1) : x[j] = 0
  IN 15 * (i - 1) + IntZeros(x[i])

\* The float q * 2^e, for q of at most 53 bits after its low zeros.
MakeFloat(q, e) ==
  IF q = <<>> THEN Zero
  ELSE LET z == BZeros(q)
           sig == BShr(q, z).q
       IN IF BBitLen(sig) + e + z > MaxExp THEN Inf
          ELSE [sig |-> sig, exp |-> e + z]

\* The float nearest to (q + f) * 2^e, where 0 <= f < 1 and f # 0 iff sticky;
\* when sticky, q has more than 54 bits.
RoundFloat(q, sticky, e) ==
  LET drop == Max(BBitLen(q) - MantissaBits, MinExp - e)
  IN IF drop <= 0 THEN MakeFloat(q, e)
     ELSE LET h == BShr(q, drop - 1)
              kept == BShr(h.q, 1).q
              up == BOdd(h.q) /\ (sticky \/ h.lost \/ BOdd(kept))
          IN MakeFloat(IF up THEN BAdd(kept, <<>>, 1) ELSE kept, e + drop)

\* x + y
FloatAdd(x, y) ==
  IF x = Inf \/ y = Inf THEN Inf
  ELSE IF x = Zero THEN y
  ELSE IF y = Zero THEN x
  ELSE LET e == Min(x.exp, y.exp)
       IN RoundFloat(BAdd(BShl(x.sig, x.exp - e), BShl(y.sig, y.exp - e), 0),
                     FALSE, e)

\* x / float(k), for a whole number k in 1..Base-1.
FloatDiv(x, k) ==
  IF x = Inf THEN Inf
  ELSE IF x = Zero THEN Zero
  ELSE LET d == BDiv(BShl(x.sig, 71), k)
       IN RoundFloat(BNorm(d.q), d.r # 0, x.exp - 71)

\* Value of a string of at most 4 decimal digits ("" is 0).
RECURSIVE DigitsVal(_)
DigitsVal(s) ==
  IF Len(s) = 0 THEN 0
  ELSE 10 * DigitsVal(SubSeq(s, 1, Len(s) - 1)) + DigitVal(CharAt(s, Len(s)))

\* x * 10^k, four decimal digits at a time.
RECURSIVE BMulPow10(_, _)
BMulPow10(x, k) ==
  IF x = <<>> THEN x
  ELSE IF k <= 4 THEN BMulAdd(x, 10 ^ k, 0)
  ELSE BMulPow10(BMulPow10(x, k \div 2), k - k \div 2)

\* The number a string of decimal digits denotes.
RECURSIVE BFromDigits(_)
BFromDigits(s) ==
  IF Len(s) <= 4 THEN BMulAdd(<<>>, 1, DigitsVal(s))
  ELSE LET h == Len(s) \div 2
       IN BAdd(BMulPow10(BFromDigits(SubSeq(s, 1, h)), Len(s) - h),
               BFromDigits(SubSeq(s, h + 1, Len(s))), 0)

\* x \div 10^k, and whether a division left a remainder.
RECURSIVE BDivPow10(_, _)
BDivPow10(x, k) ==
  IF x = <<>> THEN [q |-> x, lost |-> FALSE]
  ELSE IF k <= 4
  THEN LET d == BDiv(x, 10 ^ k) IN [q |-> BNorm(d.q), lost |-> d.r # 0]
  ELSE LET a == BDivPow10(x, k \div 2)
           b == BDivPow10(a.q, k - k \div 2)
       IN [q |-> b.q, lost |-> a.lost \/ b.lost]

\* The float nearest to n / 10^k.
FloatOfDecimal(n, k) ==
  IF n = <<>> THEN Zero
  ELSE LET s == Max(0, 56 + 4 * k - BBitLen(n))
           d == BDivPow10(BShl(n, s), k)
       IN RoundFloat(d.q, d.lost, -s)

----------------------------------------------------------------------------
(* File Locator: the f-strings *)

\* The letter before the degree in a file name; serial names carry none.
DegreeLetter(a) == IF a = "parallel" THEN "T" ELSE "P"

FileName(a, L, deg, r) ==
  IF a = "serial"
  THEN a \o "-L" \o ToString(L) \o "-R" \o ToString(r) \o ".out"
  ELSE a \o "-L" \o ToString(L) \o "-" \o DegreeLetter(a) \o ToString(deg)
         \o "-R" \o ToString(r) \o ".out"

InDir(a) == "output/" \o a

InputPath(a, L, deg, r) ==
  InDir(a) \o "/L" \o ToString(L) \o "/" \o FileName(a, L, deg, r)

OutDir(a, L) == OUT_DIR \o "/" \o a \o "/L" \o ToString(L)

OutPath(a, L) == OutDir(a, L) \o "/" \o a \o "-L" \o ToString(L) \o ".csv"

\* os.makedirs(path, exist_ok=True): the directory and its missing ancestors.
Makedirs(ds, path) ==
  ds \cup {path}
     \cup {SubSeq(path, 1, i - 1) : i \in {j \in 2..Len(path) : CharAt(path, j) = "/"}}

\* Degrees a record function iterates for one sequence length; the serial
\* function has no such loop and is modelled with the single degree 0.
DegreesOf(a, counts) == IF a = "serial" THEN <<0>> ELSE counts

----------------------------------------------------------------------------
(* Time Extractor: re.search and float *)

NoError == [type |-> "None", msg |-> ""]

FileNotFoundError(path) ==
  [type |-> "FileNotFoundError",
   msg |-> "[Errno 2] No such file or directory: '" \o path \o "'"]

ValueError(msg) == [type |-> "ValueError", msg |-> msg]

\* Mutant of OpenRead: a file that does not exist reads as an empty text.
OpenReadMissingAsEmpty(fs, path) ==
  [ok |-> TRUE, text |-> IF path \in DOMAIN fs THEN fs[path] ELSE "",
   error |-> NoError]

\* open(input_path, 'r') ... in_file.read()
OpenRead(fs, path) ==
  IF path \in DOMAIN fs
  THEN [ok |-> TRUE, text |-> fs[path], error |-> NoError]
  ELSE [ok |-> FALSE, text |-> "", error |-> FileNotFoundError(path)]

\* Offsets at which the lookbehind (?<=Total time taken:) holds: the indices of
\* the last character of an occurrence of the marker.
MarkerEnds(text) ==
  {i \in Len(Marker)..Len(text) : SubSeq(text, i - Len(Marker) + 1, i) = Marker}

\* Mutant of Search: the pattern asks for a digit or a point after the
\* marker, so a marker with no number after it is no match.
SearchNumberRequired(text) ==
  LET ends == {e \in MarkerEnds(text) :
                 LET a == SkipSpaces(text, e + 1)
                 IN a <= Len(text) /\ (IsDigit(CharAt(text, a)) \/ CharAt(text, a) = ".")}
  IN IF ends = {}
     THEN [found |-> FALSE, group1 |-> ""]
     ELSE LET e == CHOOSE i \in ends : \A j \in ends : i <= j
              a == SkipSpaces(text, e + 1)
              b == SkipDigits(text, a)
              c == IF b <= Len(text) /\ CharAt(text, b) = "." THEN b + 1 ELSE b
              z == SkipDigits(text, c)
          IN [found |-> TRUE, group1 |-> SubSeq(text, a, z - 1)]

\* re.search(r'(?<=Total time taken:)\s*(\d*[\.]?\d*)', text).  Everything after
\* the lookbehind may match the empty string, so the search succeeds at the
\* leftmost occurrence of the marker, each quantifier taking all it can.
Search(text) ==
  LET ends == MarkerEnds(text) IN
  IF ends = {}
  THEN [found |-> FALSE, group1 |-> ""]
  ELSE LET e == CHOOSE i \in ends : \A j \in ends : i <= j
           a == SkipSpaces(text, e + 1)
           b == SkipDigits(text, a)
           c == IF b <= Len(text) /\ CharAt(text, b) = "." THEN b + 1 ELSE b
           z == SkipDigits(text, c)
       IN [found |-> TRUE, group1 |-> SubSeq(text, a, z - 1)]

\* float(s) for a string of the shape \d*\.?\d* : digits are required on at
\* least one side of the point.
Float(s) ==
  LET b == SkipDigits(s, 1)
      hasDot == b <= Len(s) /\ CharAt(s, b) = "."
      ip == SubSeq(s, 1, b - 1)
      fp == IF hasDot THEN SubSeq(s, b + 1, Len(s)) ELSE ""
  IN IF \/ Len(ip) + Len(fp) = 0
        \/ (~hasDot /\ b <= Len(s))
        \/ SkipDigits(fp, 1) <= Len(fp)
     THEN [ok |-> FALSE, value |-> Zero,
           error |-> ValueError("could not convert string to float: '" \o s \o "'")]
     ELSE [ok |-> TRUE,
           value |-> FloatOfDecimal(BFromDigits(ip \o fp), Len(fp)),
           error |-> NoError]

\* Lines 55-63 for one run: the duration to add, or the exception raised.
Trial(fs, path, file_name) ==
  LET f == OpenRead(fs, path) IN
  IF ~f.ok THEN [ok |-> FALSE, value |-> Zero, error |-> f.error]
  ELSE LET match == Search(f.text) IN
       IF ~match.found
       THEN [ok |-> FALSE, value |-> Zero,
             error |-> ValueError("ERROR: Could not extract execution time for "
                                    \o file_name)]
       ELSE Float(match.group1)

----------------------------------------------------------------------------
(* Report Emitter *)

DegreeColumn(a) == IF a = "parallel" THEN "n_threads" ELSE "n_processes"

\* pd.DataFrame({...}): the column names and the rows.
DataFrame(a, counts, avgs) ==
  IF a = "serial"
  THEN [header |-> <<"avg_execution_time">>,
        rows |-> [i \in 1..Len(avgs) |-> <<avgs[i]>>]]
  ELSE [header |-> <<DegreeColumn(a), "avg_execution_time">>,
        rows |-> [i \in 1..Len(counts) |-> <<counts[i], avgs[i]>>]]

\* Mutant of ToCsv: the file is opened for appending.
ToCsvAppend(d, path, df) ==
  [p \in DOMAIN d \cup {path} |->
     IF p # path THEN d[p]
     ELSE IF path \in DOMAIN d
          THEN [header |-> d[p].header, rows |-> d[p].rows \o df.rows]
          ELSE df]

\* df.to_csv(out_path, index=False): the file is created or truncated.
ToCsv(d, path, df) ==
  [p \in DOMAIN d \cup {path} |-> IF p = path THEN df ELSE d[p]]

\* Mutant of AppendAvg: the average is inserted at the front of the list.
PrependAvg(avgs, avg) == <<avg>> \o avgs

\* avg_execution_times.append(avg_execution_time)
AppendAvg(avgs, avg) == Append(avgs, avg)

----------------------------------------------------------------------------
(* Input trees *)

\* Every file the three record functions can ask for.
Configs(a) ==
  {<<a, SequenceLengths[i], DegreesOf(a, DegreeCounts)[j]>> :
     i \in 1..Len(SequenceLengths), j \in 1..Len(DegreesOf(a, DegreeCounts))}

PathsOf(a) ==
  {InputPath(c[1], c[2], c[3], r) : c \in Configs(a), r \in 1..n_runs}

AllPaths == UNION {PathsOf(a) : a \in Algos}

\* What every file of the tree holds, but for the one that deviates.
BaseText == "Total time taken: 2.5\n"

\* Other files from which a duration is extracted: 10.5, 4 (the first of two
\* markers, after a space and a tab), 0.5, 3 and 0.1 (after a vertical tab;
\* 0.1 is no binary fraction, and the sum it joins is rounded).
OtherGoodTexts ==
  {"Total time taken:10.5", "rank 0\nTotal time taken: \t4\nTotal time taken: 99\n",
   "Total time taken: .5s", "Total time taken: 3.", "Total time taken:0.1 s"}

\* Files without the marker.
NoMarkerTexts == {"", "Time taken: 2.5\n"}

\* Files with the marker and no number after it.
EmptyNumberTexts ==
  {"Total time taken:", "Total time taken: \n", "Total time taken: n/a\n",
   "Total time taken: ."}

DeviantTexts == OtherGoodTexts \cup NoMarkerTexts \cup EmptyNumberTexts

\* The tree in which every file holds BaseText.
BaseTree == [p \in AllPaths |-> BaseText]

\* The trees that differ from BaseTree in at most one file among `paths`:
\* that file is missing or holds a deviant text.
Trees(paths, texts) ==
  {BaseTree}
    \cup {[q \in AllPaths \ {p} |-> BaseText] : p \in paths}
    \cup {[q \in AllPaths |-> IF q = p THEN t ELSE BaseText] : p \in paths, t \in texts}

----------------------------------------------------------------------------
(* Entry points *)

\* Mutant of MainCalls: the call of record_parallel() is not commented out.
MainCallsWithParallel == <<"serial", "parallel", "distributed">>

\* main(): record_serial(), then record_distributed(); the call of
\* record_parallel() is commented out.
MainCalls == <<"serial", "distributed">>

Entries == {"main", "record_parallel"}

CallsOf(e) == IF e = "main" THEN MainCalls ELSE <<"parallel">>

ReadBy(e) == UNION {PathsOf(CallsOf(e)[i]) : i \in 1..Len(CallsOf(e))}

\* The state of a process that has just been started.
Started ==
  /\ calls = CallsOf(entry)
  /\ pc = "main"
  /\ algo = ""
  /\ si = 0
  /\ di = 0
  /\ run = 0
  /\ execution_time = Zero
  /\ avg_execution_times = <<>>
  /\ input_path = ""
  /\ error = NoError
  /\ stdout = <<>>

Init ==
  /\ entry \in Entries
  /\ files \in Trees(ReadBy(entry), DeviantTexts)
  /\ data = <<>>
  /\ dirs = {}
  /\ sequence_lengths = SequenceLengths
  /\ degree_counts = DegreeCounts
  /\ invocation = 1
  /\ Started

----------------------------------------------------------------------------
(* The process *)

\* Mutant of Uncaught: main catches the exception of a record function and
\* goes on to the next one.
CaughtByMain == "main"

\* Where an exception leaves the process: nothing catches it, neither the
\* record functions nor main, so the interpreter exits with a traceback.
Uncaught == "failed"

\* Mutant of LastRun: range(1, n_runs).
LastRunShort == n_runs - 1

\* range(1, n_runs + 1): the last run index of a configuration.
LastRun == n_runs

\* The sequence length and the degree the loops are at.
CurLength == sequence_lengths[si]

CurDegrees == DegreesOf(algo, degree_counts)

CurDegree == CurDegrees[di]

\* main calls the next record function, which creates OUT_DIR/algo and
\* enters its loop over sequence_lengths.
Call ==
  /\ pc = "main"
  /\ calls # <<>>
  /\ algo' = Head(calls)
  /\ calls' = Tail(calls)
  /\ dirs' = Makedirs(dirs, OUT_DIR \o "/" \o Head(calls))
  /\ si' = 1
  /\ pc' = "size"
  /\ UNCHANGED <<files, data, stdout, sequence_lengths, degree_counts, entry,
                 invocation, di, run, execution_time, avg_execution_times,
                 input_path, error>>

\* Mutant of SizeBegin: the list of averages is created before the loop over
\* sequence_lengths and never emptied.
SizeBeginKeepsAverages ==
  /\ pc = "size"
  /\ si <= Len(sequence_lengths)
  /\ dirs' = Makedirs(dirs, OutDir(algo, CurLength))
  /\ di' = 1
  /\ pc' = "degree"
  /\ UNCHANGED <<files, data, stdout, sequence_lengths, degree_counts, entry,
                 invocation, calls, algo, si, run, execution_time, input_path,
                 error, avg_execution_times>>

\* One iteration of the loop over sequence_lengths begins: the output
\* directory is created and the list of averages is emptied.
SizeBegin ==
  /\ pc = "size"
  /\ si <= Len(sequence_lengths)
  /\ dirs' = Makedirs(dirs, OutDir(algo, CurLength))
  /\ avg_execution_times' = <<>>
  /\ di' = 1
  /\ pc' = "degree"
  /\ UNCHANGED <<files, data, stdout, sequence_lengths, degree_counts, entry,
                 invocation, calls, algo, si, run, execution_time, input_path,
                 error>>

\* Mutant of DegreeBegin: the accumulator is not reset.
DegreeBeginNoReset ==
  /\ pc = "degree"
  /\ di <= Len(CurDegrees)
  /\ run' = 1
  /\ pc' = "read"
  /\ UNCHANGED <<files, data, dirs, stdout, sequence_lengths, degree_counts,
                 entry, invocation, calls, algo, si, di, avg_execution_times,
                 input_path, error, execution_time>>

\* One configuration begins: execution_time = 0.0 and the loop over the runs
\* starts.
DegreeBegin ==
  /\ pc = "degree"
  /\ di <= Len(CurDegrees)
  /\ execution_time' = Zero
  /\ run' = 1
  /\ pc' = "read"
  /\ UNCHANGED <<files, data, dirs, stdout, sequence_lengths, degree_counts,
                 entry, invocation, calls, algo, si, di, avg_execution_times,
                 input_path, error>>

\* Mutant of Raise: the averages gathered so far are written on the way out.
RaiseEmitPartial(exc) ==
  /\ pc' = Uncaught
  /\ error' = exc
  /\ data' = ToCsv(data, OutPath(algo, CurLength),
                   DataFrame("serial", <<>>, avg_execution_times))
  /\ UNCHANGED stdout

\* An exception leaves the loops: the process ends with it, and nothing more
\* is written.
Raise(exc) ==
  /\ pc' = Uncaught
  /\ error' = exc
  /\ UNCHANGED <<data, stdout>>

\* One run: the file is located, read and searched, and its duration added.
ReadRun ==
  /\ pc = "read"
  /\ run <= LastRun
  /\ LET file_name == FileName(algo, CurLength, CurDegree, run)
         path == InputPath(algo, CurLength, CurDegree, run)
         t == Trial(files, path, file_name)
     IN /\ input_path' = path
        /\ IF t.ok
           THEN /\ execution_time' = FloatAdd(execution_time, t.value)
                /\ run' = run + 1
                /\ UNCHANGED <<pc, error, data, stdout>>
           ELSE /\ Raise(t.error)
                /\ UNCHANGED <<execution_time, run>>
  /\ UNCHANGED <<files, dirs, sequence_lengths, degree_counts, entry,
                 invocation, calls, algo, si, di, avg_execution_times>>

\* The runs of a configuration are over: its average joins the list.
Average ==
  /\ pc = "read"
  /\ run > LastRun
  /\ avg_execution_times' =
       AppendAvg(avg_execution_times, FloatDiv(execution_time, n_runs))
  /\ di' = di + 1
  /\ pc' = "degree"
  /\ UNCHANGED <<files, data, dirs, stdout, sequence_lengths, degree_counts,
                 entry, invocation, calls, algo, si, run, execution_time,
                 input_path, error>>

\* The configurations of a sequence length are over: the table is built,
\* printed and written.
Emit ==
  /\ pc = "degree"
  /\ di > Len(CurDegrees)
  /\ LET df == DataFrame(algo, degree_counts, avg_execution_times)
     IN /\ stdout' = Append(stdout, df)
        /\ data' = ToCsv(data, OutPath(algo, CurLength), df)
  /\ si' = si + 1
  /\ pc' = "size"
  /\ UNCHANGED <<files, dirs, sequence_lengths, degree_counts, entry,
                 invocation, calls, algo, di, run, execution_time,
                 avg_execution_times, input_path, error>>

\* The record function returns to main.
Return ==
  /\ pc = "size"
  /\ si > Len(sequence_lengths)
  /\ pc' = "main"
  /\ UNCHANGED <<files, data, dirs, stdout, sequence_lengths, degree_counts,
                 entry, invocation, calls, algo, si, di, run, execution_time,
                 avg_execution_times, input_path, error>>

\* main returns: the process exits normally.
Exit ==
  /\ pc = "main"
  /\ calls = <<>>
  /\ pc' = "done"
  /\ UNCHANGED <<files, data, dirs, stdout, sequence_lengths, degree_counts,
                 entry, invocation, calls, algo, si, di, run, execution_time,
                 avg_execution_times, input_path, error>>

\* The process has ended and is started again on the same input tree; the
\* output tree is what the earlier process left.
Rerun ==
  /\ pc \in {"done", "failed"}
  /\ invocation < MaxInvocations
  /\ invocation' = invocation + 1
  /\ calls' = CallsOf(entry)
  /\ pc' = "main"
  /\ algo' = ""
  /\ si' = 0
  /\ di' = 0
  /\ run' = 0
  /\ execution_time' = Zero
  /\ avg_execution_times' = <<>>
  /\ input_path' = ""
  /\ error' = NoError
  /\ stdout' = <<>>
  /\ UNCHANGED <<files, data, dirs, sequence_lengths, degree_counts, entry>>

\* The steps of one process.
Step ==
  \/ Call
  \/ SizeBegin
  \/ DegreeBegin
  \/ ReadRun
  \/ Average
  \/ Emit
  \/ Return
  \/ Exit

Next == Step \/ Rerun

Spec == Init /\ [][Next]_vars

----------------------------------------------------------------------------
(* What the claims speak of, read off the input tree and the output tree *)

\* The file exists and a duration is extracted from it.
GoodFile(p) ==
  /\ p \in DOMAIN files
  /\ LET m == Search(files[p]) IN m.found /\ Float(m.group1).ok

Duration(p) == Float(Search(files[p]).group1).value

\* Sum of the durations of runs 1..k of configuration (a, L, d), added in the
\* order of the runs.
RECURSIVE SumRuns(_, _, _, _)
SumRuns(a, L, d, k) ==
  IF k = 0 THEN Zero
  ELSE FloatAdd(SumRuns(a, L, d, k - 1), Duration(InputPath(a, L, d, k)))

\* Arithmetic mean of the 8 trials of configuration (a, L, d).
Mean(a, L, d) == FloatDiv(SumRuns(a, L, d, 8), 8)

\* The 8 trial files of the configuration hold what they hold in BaseTree.
Untouched(a, L, d) ==
  \A r \in 1..8 :
    /\ InputPath(a, L, d, r) \in DOMAIN files
    /\ files[InputPath(a, L, d, r)] = BaseText

\* The average every configuration of BaseTree is reported with: 8 * 2.5 / 8.
BaseAverage == [sig |-> <<5>>, exp |-> -1]

\* The summaries that exist, as (algorithm, sequence length) pairs.
Summaries ==
  {s \in Algos \X {100, 1000, 10000} : OutPath(s[1], s[2]) \in DOMAIN data}

Table(s) == data[OutPath(s[1], s[2])]

\* The degree the j-th row of a summary of algorithm a stands for.
RowDegree(a, j) == IF a = "serial" THEN 0 ELSE <<1, 2, 4, 8>>[j]

\* The average in a row: its last column.
RowAverage(row) == row[Len(row)]

\* A process is between two sequence lengths, or has ended.  The output tree
\* changes in Emit alone, which ends in such a state, so a formula over the
\* summaries that holds in these states holds of every summary ever written.
Settled == pc \in {"size", "main", "done", "failed"}

\* The summary written by the step that led to this state: Emit alone writes,
\* and it alone leaves the process at "size" with si advanced.  A formula
\* that holds of Written in every state holds of every summary when it is
\* written.
Written ==
  IF pc = "size" /\ si > 1 THEN {<<algo, sequence_lengths[si - 1]>>} ELSE {}

----------------------------------------------------------------------------
(* Claims *)

\* C2: every average of a written summary is the sum of the 8 durations
\* extracted from the files of run 1..8 of its configuration, all 8 of them
\* present and parseable, divided by 8 (sum and quotient being those of the
\* floats, the durations added in the order of the runs).
C2_AverageOfEightTrials ==
  \A s \in Written :
    /\ s \in Summaries
    /\ \A j \in 1..Len(Table(s).rows) :
         /\ \A r \in 1..8 : GoodFile(InputPath(s[1], s[2], RowDegree(s[1], j), r))
         /\ RowAverage(Table(s).rows[j]) = Mean(s[1], s[2], RowDegree(s[1], j))

\* C2 witness: a summary has been written in which one configuration holds a
\* file with another duration, so its average is not that of its neighbours.
C2_Witness ==
  /\ pc = "size"
  /\ \E s \in Summaries :
       \E j \in 1..Len(Table(s).rows) :
         RowAverage(Table(s).rows[j]) # BaseAverage

\* C4: an exception is caught nowhere: the process that raised it has halted,
\* no step of it is enabled, and when it was raised in record_serial under
\* main, record_distributed is still to be called, none of its input files
\* was opened and nothing of data/distributed exists.
C4_SerialFailureHaltsRun ==
  /\ error # NoError => pc = "failed" /\ ~ENABLED Step
  /\ (pc = "failed" /\ entry = "main" /\ algo = "serial") =>
       /\ calls = <<"distributed">>
       /\ ~StartsWith(input_path, "output/distributed")
       /\ \A d \in dirs : ~StartsWith(d, "data/distributed")
       /\ \A p \in DOMAIN data : ~StartsWith(p, "data/distributed")

\* C4 witness: main has failed on a file of the serial aggregation.
C4_Witness ==
  /\ pc = "failed"
  /\ entry = "main"
  /\ algo = "serial"
  /\ StartsWith(input_path, "output/serial/")

\* C5: a process started at main runs record_serial, then record_distributed
\* and never record_parallel: it opens no file under output/parallel and
\* nothing under data/parallel exists; when it exits normally the six
\* summaries of serial and distributed are written.
C5_MainSkipsParallel ==
  entry = "main" =>
    /\ algo # "parallel"
    /\ ~StartsWith(input_path, "output/parallel")
    /\ \A d \in dirs : ~StartsWith(d, "data/parallel")
    /\ \A p \in DOMAIN data : ~StartsWith(p, "data/parallel")
    /\ algo = "distributed" =>
         \A L \in {100, 1000, 10000} : OutPath("serial", L) \in DOMAIN data
    /\ pc = "done" =>
         DOMAIN data = {OutPath(a, L) : a \in {"serial", "distributed"},
                                        L \in {100, 1000, 10000}}

\* C5 witness: main has run to its end while the files of output/parallel
\* were there to be read.
C5_Witness ==
  /\ entry = "main"
  /\ pc = "done"
  /\ \E p \in DOMAIN files : StartsWith(p, "output/parallel/")
  /\ data # <<>>

\* C7: a process started again on the same input tree changes no summary
\* file: each write of the later run leaves the output tree as the earlier
\* run left it (the table is replaced by an equal one, not extended).
C7_RerunIdempotent ==
  [][invocation >= 2 => data' = data /\ dirs' = dirs]_vars

\* C7 witness: the second run has written a summary over the first run's.
C7_Witness ==
  /\ invocation = 2
  /\ pc = "size"
  /\ si > 1
  /\ OutPath(algo, sequence_lengths[si - 1]) \in DOMAIN data

\* C8: the accumulator starts every configuration at zero, and a
\* configuration whose 8 files are those of BaseTree is reported with the
\* average it has in the run on BaseTree, whatever the other files of the
\* tree hold.
C8_NoCrossConfigurationState ==
  /\ (pc = "read" /\ run = 1) => execution_time = Zero
  /\ Settled =>
       \A s \in Summaries :
         \A j \in 1..Len(Table(s).rows) :
           Untouched(s[1], s[2], RowDegree(s[1], j)) =>
             RowAverage(Table(s).rows[j]) = BaseAverage

\* C8 witness: a summary holds the base average for one degree next to
\* another average for a degree one of whose files deviates.
C8_Witness ==
  /\ pc = "size"
  /\ \E s \in Summaries :
       \E j, k \in 1..Len(Table(s).rows) :
         /\ Untouched(s[1], s[2], RowDegree(s[1], j))
         /\ ~Untouched(s[1], s[2], RowDegree(s[1], k))
         /\ RowAverage(Table(s).rows[j]) = BaseAverage
         /\ RowAverage(Table(s).rows[k]) # BaseAverage

\* C9: a parallel or distributed summary has the four rows of degree 1, 2,
\* 4, 8 in this order, the row of degree d holding the mean of the trial
\* files of degree d; a serial summary has one row.
C9_RowsInStepWithDegrees ==
  \A s \in Written :
    /\ s \in Summaries
    /\ IF s[1] = "serial"
       THEN /\ Table(s).header = <<"avg_execution_time">>
            /\ Len(Table(s).rows) = 1
            /\ Table(s).rows[1] = <<Mean("serial", s[2], 0)>>
       ELSE /\ Table(s).header =
                 <<IF s[1] = "parallel" THEN "n_threads" ELSE "n_processes",
                   "avg_execution_time">>
            /\ Len(Table(s).rows) = 4
            /\ \A j \in 1..4 :
                 Table(s).rows[j] =
                   <<(<<1, 2, 4, 8>>)[j], Mean(s[1], s[2], (<<1, 2, 4, 8>>)[j])>>

\* C9 witness: a four-row summary whose rows do not all hold the same
\* average, and a one-row serial summary.
C9_Witness ==
  /\ pc = "size"
  /\ \E s \in Summaries :
       /\ s[1] # "serial"
       /\ \E j, k \in 1..Len(Table(s).rows) :
            RowAverage(Table(s).rows[j]) # RowAverage(Table(s).rows[k])
  /\ \E s \in Summaries : s[1] = "serial" /\ Len(Table(s).rows) = 1

----------------------------------------------------------------------------
(* What the script in its own order leaves, computed from the input tree *)

\* Every trial file of every configuration of the sequence length is good.
SizeGood(a, L) ==
  \A j \in 1..Len(DegreesOf(a, <<1, 2, 4, 8>>)) :
    \A r \in 1..8 : GoodFile(InputPath(a, L, DegreesOf(a, <<1, 2, 4, 8>>)[j], r))

\* The summary of (a, L) as the trial files of that sequence length alone
\* determine it: its rows in the order 1, 2, 4, 8 of the degrees.
SummaryOf(a, L) ==
  IF a = "serial"
  THEN [header |-> <<"avg_execution_time">>, rows |-> <<<<Mean(a, L, 0)>>>>]
  ELSE [header |-> <<DegreeColumn(a), "avg_execution_time">>,
        rows |-> [j \in 1..4 |-> <<(<<1, 2, 4, 8>>)[j], Mean(a, L, (<<1, 2, 4, 8>>)[j])>>]]

\* The (mode, sequence length) pairs in the order in which the process
\* reaches them: the record functions in the order of their calls, and in
\* each 100, 1000, 10000.
ProgramOrder ==
  LET c == CallsOf(entry)
  IN [k \in 1..(3 * Len(c)) |->
        <<c[((k - 1) \div 3) + 1], (<<100, 1000, 10000>>)[((k - 1) % 3) + 1]>>]

\* The pairs that stand in ProgramOrder before the first one with a bad
\* trial file.
SummariesInOrder ==
  LET order == ProgramOrder
      good == {i \in DOMAIN order : SizeGood(order[i][1], order[i][2])}
  IN {order[k] : k \in {k \in DOMAIN order : \A m \in 1..k : m \in good}}

\* The output tree that holds the summaries of SummariesInOrder, each as its
\* own trial files determine it.
ResultInOrder ==
  LET written == SummariesInOrder
  IN [p \in {OutPath(s[1], s[2]) : s \in written} |->
        LET s == CHOOSE t \in written : OutPath(t[1], t[2]) = p
        IN SummaryOf(s[1], s[2])]

----------------------------------------------------------------------------
(* Claims settled otherwise than stated *)

\* C1 as stated: a missing trial file ends the aggregation with the error
\* kind raised for a file without the marker (the script's ValueError), and
\* no summary is written for that sequence length.
C1_MissingFileRaisesExtractionError ==
  (pc = "failed" /\ input_path \notin DOMAIN files) =>
    /\ error.type = "ValueError"
    /\ OutPath(algo, CurLength) \notin DOMAIN data

\* C1 amended: a missing trial file ends the aggregation with the
\* FileNotFoundError of open, no run of the loop gets past it, and no summary
\* is written for a sequence length one of whose trial files is missing.
C1_MissingFileAbortsSize ==
  /\ (pc = "failed" /\ input_path \notin DOMAIN files) =>
       /\ error = [type |-> "FileNotFoundError",
                   msg |-> "[Errno 2] No such file or directory: '"
                             \o input_path \o "'"]
       /\ OutPath(algo, CurLength) \notin DOMAIN data
  /\ (pc = "read" /\ run > 1) => input_path \in DOMAIN files
  /\ \A s \in Written :
       \A j \in 1..Len(DegreesOf(s[1], <<1, 2, 4, 8>>)) :
         \A r \in 1..8 :
           InputPath(s[1], s[2], DegreesOf(s[1], <<1, 2, 4, 8>>)[j], r)
             \in DOMAIN files

\* C1 witness: a process has failed on a file that does not exist.
C1_Witness ==
  /\ pc = "failed"
  /\ input_path \notin DOMAIN files
  /\ input_path \in AllPaths

\* C3 as stated: a process that has failed on a file of a mode has written
\* no summary of that mode.
C3_NoSummaryOfFailedMode ==
  pc = "failed" =>
    \A i \in 1..Len(sequence_lengths) :
      OutPath(algo, sequence_lengths[i]) \notin DOMAIN data

\* C3 amended: a process that has failed on a file of a mode has written the
\* summaries of the sequence lengths it completed before, and none for the
\* sequence length it failed in nor for the later ones.
C3_SummariesUpToFailedSize ==
  pc = "failed" =>
    \A i \in 1..Len(sequence_lengths) :
      OutPath(algo, sequence_lengths[i]) \in DOMAIN data <=> i < si

\* C3 witness: a process has failed in the second or a later sequence length.
C3_Witness ==
  /\ pc = "failed"
  /\ si > 1
  /\ OutPath(algo, sequence_lengths[1]) \in DOMAIN data

\* C6 as stated: a file with the marker and no digits after it is not a
\* no-match, and the processing of the file does not end in an error.
C6_EmptyNumberIsNoError ==
  (pc = "failed" /\ input_path \in DOMAIN files) =>
    files[input_path] \notin EmptyNumberTexts

\* C6 amended: a file with the marker and no digits after it is not a
\* no-match (the error is not "Could not extract"), but the processing of
\* the file ends in the ValueError of float on the captured text, and no run
\* of the loop gets past such a file.
C6_EmptyNumberFailsInFloat ==
  /\ (pc = "failed" /\ input_path \in DOMAIN files
        /\ files[input_path] \in EmptyNumberTexts) =>
       /\ error.type = "ValueError"
       /\ error.msg \in {"could not convert string to float: ''",
                         "could not convert string to float: '.'"}
  /\ (pc = "read" /\ run > 1 /\ input_path \in DOMAIN files) =>
       files[input_path] \notin EmptyNumberTexts

\* C6 witness: a process has failed on a file with the marker and nothing
\* after it.
C6_Witness ==
  /\ pc = "failed"
  /\ input_path \in DOMAIN files
  /\ files[input_path] = "Total time taken:"

  /\ pc = "failed"
  /\ si = 2
  /\ OutPath(algo, sequence_lengths[1]) \in DOMAIN data
  /\ OutPath(algo, sequence_lengths[3]) \notin DOMAIN data
  /\ SizeGood(algo, sequence_lengths[3])

====
